---------------------------- MODULE Spec2Model ----------------------------
(***************************************************************************)
(* Model of src/project/tasks.py: the multi-environment task runner.       *)
(*                                                                         *)
(*   get_poetry_venv(python_version)   lines 18-23                         *)
(*   setpath(path)                     lines 26-32                         *)
(*   python(versions) / wrapped        lines 35-54                         *)
(*                                                                         *)
(* A Python string is modelled as the sequence of its characters, so that  *)
(* endswith, split, join and the pathlib conversion are computed and not   *)
(* assumed.  os.environ is a record holding the variables that are set; a  *)
(* variable that is absent is absent from the record's domain.             *)
(***************************************************************************)
EXTENDS Naturals, Sequences, FiniteSets

VARIABLES
    environ,        \* os.environ restricted to PATH and VIRTUAL_ENV
    context,        \* attributes set on the invoke context: {} or {<<"python_version", v>>}
    versions,       \* the argument given to python(): [kind |-> "list", items |-> ...] or [kind |-> "str", text |-> ...]
    failAt,         \* the task body raises on its failAt-th execution (0: never)
    wrapper,        \* what python(versions)(func) returned: "none", "func" or "wrapped"
    vlist,          \* the closure variable `versions` of decorator/wrapped
    pc,             \* position of the single thread of control
    i,              \* number of iterations of the for loop started so far
    version,        \* the loop variable of wrapped
    resolved,       \* the value returned by the last get_poetry_venv call
    path,           \* the argument of setpath: str(Path(resolved) / "bin")
    current_path,   \* the local variable of setpath
    error,          \* the exception that left the call: "none", "KeyError", "BodyError"
    trace,          \* one entry per execution of the task body, in order
    environ0        \* os.environ when the task was called

vars == <<environ, context, versions, failAt, wrapper, vlist, pc, i, version,
          resolved, path, current_path, error, trace, environ0>>

---------------------------------------------------------------------------
(* Bounds of the model. *)

MaxVersions == 2     \* longest enumerated list of identifiers
MaxVenvLen == 3      \* longest enumerated VIRTUAL_ENV value (process model)
MaxResolveLen == 4   \* longest enumerated VIRTUAL_ENV value (resolution model)
MaxIdLen == 2        \* longest enumerated identifier (resolution model)

---------------------------------------------------------------------------
(* Strings. *)

RECURSIVE SeqsUpTo(_, _)
SeqsUpTo(S, n) ==
    IF n = 0 THEN {<<>>}
    ELSE LET shorter == SeqsUpTo(S, n - 1)
         IN  shorter \cup {Append(s, c) : s \in shorter, c \in S}

\* str.endswith
EndsWith(s, suffix) ==
    /\ Len(suffix) <= Len(s)
    /\ SubSeq(s, Len(s) - Len(suffix) + 1, Len(s)) = suffix

\* str.split(sep) for a one-character separator: always at least one field
RECURSIVE Split(_, _)
Split(s, sep) ==
    IF \A k \in 1..Len(s) : s[k] # sep
    THEN <<s>>
    ELSE LET k == CHOOSE k \in 1..Len(s) :
                     s[k] = sep /\ \A j \in 1..(k - 1) : s[j] # sep
         IN  <<SubSeq(s, 1, k - 1)>> \o Split(SubSeq(s, k + 1, Len(s)), sep)

\* sep.join(parts)
RECURSIVE Join(_, _)
Join(parts, sep) ==
    IF parts = <<>> THEN <<>>
    ELSE IF Len(parts) = 1 THEN parts[1]
    ELSE parts[1] \o sep \o Join(Tail(parts), sep)

\* parts[:-1]
AllButLast(parts) == SubSeq(parts, 1, Len(parts) - 1)

RECURSIVE Filter(_, _)
Filter(parts, drop) ==
    IF parts = <<>> THEN <<>>
    ELSE IF Head(parts) \in drop THEN Filter(Tail(parts), drop)
    ELSE <<Head(parts)>> \o Filter(Tail(parts), drop)

RECURSIVE LeadingSlashes(_)
LeadingSlashes(s) ==
    IF s # <<>> /\ Head(s) = "/" THEN 1 + LeadingSlashes(Tail(s)) ELSE 0

PY == <<"p", "y">>
DASH_PY == <<"-", "p", "y">>
BIN == <<"b", "i", "n">>

V36 == <<"3", ".", "6">>
V37 == <<"3", ".", "7">>
V38 == <<"3", ".", "8">>
V310 == <<"3", ".", "1", "0">>

PYTHON_VERSIONS == <<V36, V37, V38, V310>>

---------------------------------------------------------------------------
(* get_poetry_venv, lines 18-23.  The result is [raised, value]: raised is *)
(* the KeyError of os.environ["VIRTUAL_ENV"] when the variable is absent.  *)

get_poetry_venv_default(env, python_version) ==
    LET current_venv == IF "VIRTUAL_ENV" \in DOMAIN env THEN env.VIRTUAL_ENV ELSE <<>>
    IN  IF EndsWith(current_venv, PY \o python_version)
        THEN [raised |-> FALSE, value |-> current_venv]
        ELSE [raised |-> FALSE,
              value  |-> Join(AllButLast(Split(current_venv, "-")), <<"-">>)
                            \o DASH_PY \o python_version]

get_poetry_venv_no_check(env, python_version) ==
    IF "VIRTUAL_ENV" \notin DOMAIN env
    THEN [raised |-> TRUE, value |-> <<>>]
    ELSE [raised |-> FALSE,
          value  |-> Join(AllButLast(Split(env.VIRTUAL_ENV, "-")), <<"-">>)
                        \o DASH_PY \o python_version]

get_poetry_venv(env, python_version) ==
    IF "VIRTUAL_ENV" \notin DOMAIN env
    THEN [raised |-> TRUE, value |-> <<>>]
    ELSE LET current_venv == env.VIRTUAL_ENV
         IN  IF EndsWith(current_venv, PY \o python_version)
             THEN [raised |-> FALSE, value |-> current_venv]
             ELSE [raised |-> FALSE,
                   value  |-> Join(AllButLast(Split(current_venv, "-")), <<"-">>)
                                 \o DASH_PY \o python_version]

(* str(Path(p) / "bin"), line 47: pathlib drops empty and "." components,  *)
(* keeps a root of exactly two slashes and reduces any other to one.       *)
PathRoot(p) ==
    LET n == LeadingSlashes(p)
    IN  IF n = 0 THEN <<>> ELSE IF n = 2 THEN <<"/", "/">> ELSE <<"/">>

PathParts(p) == Filter(Split(p, "/"), {<<>>, <<".">>})

path_bin_concat(p) == p \o <<"/">> \o BIN

path_bin(p) == PathRoot(p) \o Join(PathParts(p) \o <<BIN>>, <<"/">>)

(* setpath, lines 29-30 and line 32. *)
setpath_enter_append(p, cur) == cur \o <<":">> \o p

setpath_enter(p, cur) == p \o <<":">> \o cur

setpath_exit_keep(now, cur) == now

setpath_exit(now, cur) == cur

(* python(versions), lines 37-41: the short-circuit and the normalisation. *)
Falsy(v) == IF v.kind = "str" THEN v.text = <<>> ELSE v.items = <<>>

python_iterate_str(v) ==
    IF Falsy(v) THEN [wrapper |-> "func", versions |-> <<>>]
    ELSE IF v.kind = "str"
         THEN [wrapper |-> "wrapped", versions |-> [k \in 1..Len(v.text) |-> <<v.text[k]>>]]
         ELSE [wrapper |-> "wrapped", versions |-> v.items]

python_no_shortcut(v) ==
    IF v.kind = "str"
    THEN [wrapper |-> "wrapped", versions |-> <<v.text>>]
    ELSE [wrapper |-> "wrapped", versions |-> v.items]

python(v) ==
    IF Falsy(v) THEN [wrapper |-> "func", versions |-> <<>>]
    ELSE IF v.kind = "str"
         THEN [wrapper |-> "wrapped", versions |-> <<v.text>>]
         ELSE [wrapper |-> "wrapped", versions |-> v.items]

---------------------------------------------------------------------------
(* Inputs. *)

Ids == {V36, V310}

VenvChar == {"/", "-", ".", "v"}

VenvSamples ==
    { <<"/", "c", "/", "n", "-", "h", "-", "p", "y", "3", ".", "6">>,
      <<"/", "a", "/", "/", "n", "-", "p", "y", "3", ".", "6">>,
      <<"/", ".", "/", "n", "-", "p", "y", "3", ".", "1", "0">>,
      <<"/", "m", "-", "p", "/", "v">>,
      <<"n", "-", "p", "y", "3", ".", "1", "0">> }

VenvValues == SeqsUpTo(VenvChar, MaxVenvLen) \cup VenvSamples

PathValues == { <<"/", "u", ":", "/", "b">>, <<>> }

Environs ==
    {[PATH |-> p, VIRTUAL_ENV |-> v] : p \in PathValues, v \in VenvValues}
        \cup {[PATH |-> p] : p \in PathValues}
        \cup {[VIRTUAL_ENV |-> v] : v \in VenvSamples}
        \cup {[k \in {} |-> <<>>]}

VersionInputs ==
    {[kind |-> "list", items |-> l] : l \in SeqsUpTo(Ids, MaxVersions) \cup {PYTHON_VERSIONS}}
        \cup {[kind |-> "str", text |-> s] : s \in Ids \cup {<<>>}}

\* the executions at which the task body may be made to raise (0: none)
FailPoints == 0..Len(PYTHON_VERSIONS)

PythonVersionAttr == {a \in context : a[1] = "python_version"}

---------------------------------------------------------------------------
(* The process: decoration, then one call of the decorated task. *)

Init ==
    /\ environ \in Environs
    /\ context = {}
    /\ versions \in VersionInputs
    /\ failAt \in FailPoints
    /\ wrapper = "none"
    /\ vlist = <<>>
    /\ pc = "init"
    /\ i = 0
    /\ version = <<>>
    /\ resolved = <<>>
    /\ path = <<>>
    /\ current_path = <<>>
    /\ error = "none"
    /\ trace = <<>>
    /\ environ0 = environ

\* @python(versions) applied to the task body, lines 35-54
Decorate ==
    /\ pc = "init"
    /\ wrapper' = python(versions).wrapper
    /\ vlist' = python(versions).versions
    /\ pc' = "ready"
    /\ UNCHANGED <<environ, context, versions, failAt, i, version, resolved, path,
                   current_path, error, trace, environ0>>

\* the decorated task is called: either func itself or wrapped, line 45
Call ==
    /\ pc = "ready"
    /\ pc' = IF wrapper = "wrapped" THEN "for" ELSE "func"
    /\ environ0' = environ
    /\ UNCHANGED <<environ, context, versions, failAt, wrapper, vlist, i, version,
                   resolved, path, current_path, error, trace>>

ForNextReversed ==
    /\ pc = "for"
    /\ IF i < Len(vlist)
       THEN /\ i' = i + 1
            /\ version' = vlist[Len(vlist) - i]
            /\ pc' = "with"
       ELSE /\ pc' = "returned"
            /\ UNCHANGED <<i, version>>
    /\ UNCHANGED <<environ, context, versions, failAt, wrapper, vlist, resolved, path,
                   current_path, error, trace, environ0>>

\* for version in versions, line 46
ForNext ==
    /\ pc = "for"
    /\ IF i < Len(vlist)
       THEN /\ i' = i + 1
            /\ version' = vlist[i + 1]
            /\ pc' = "with"
       ELSE /\ pc' = "returned"
            /\ UNCHANGED <<i, version>>
    /\ UNCHANGED <<environ, context, versions, failAt, wrapper, vlist, resolved, path,
                   current_path, error, trace, environ0>>

\* Path(get_poetry_venv(version)) / "bin", line 47 (the argument of setpath)
Resolve ==
    /\ pc = "with"
    /\ LET r == get_poetry_venv(environ, version)
       IN  IF r.raised
           THEN /\ error' = "KeyError"
                /\ pc' = "raised"
                /\ UNCHANGED <<resolved, path>>
           ELSE /\ resolved' = r.value
                /\ path' = path_bin(r.value)
                /\ pc' = "setpath"
                /\ UNCHANGED error
    /\ UNCHANGED <<environ, context, versions, failAt, wrapper, vlist, i, version,
                   current_path, trace, environ0>>

\* setpath up to its yield, lines 29-31
SetpathEnter ==
    /\ pc = "setpath"
    /\ IF "PATH" \notin DOMAIN environ
       THEN /\ error' = "KeyError"
            /\ pc' = "raised"
            /\ UNCHANGED <<environ, current_path>>
       ELSE /\ current_path' = environ.PATH
            /\ environ' = [environ EXCEPT !.PATH = setpath_enter(path, environ.PATH)]
            /\ pc' = "setattr"
            /\ UNCHANGED error
    /\ UNCHANGED <<context, versions, failAt, wrapper, vlist, i, version, resolved,
                   path, trace, environ0>>

\* context.python_version = version, line 48
SetVersion ==
    /\ pc = "setattr"
    /\ context' = (context \ PythonVersionAttr) \cup {<<"python_version", version>>}
    /\ pc' = "func"
    /\ UNCHANGED <<environ, versions, failAt, wrapper, vlist, i, version, resolved,
                   path, current_path, error, trace, environ0>>

BodyEntry ==
    [python_version |-> {a[2] : a \in PythonVersionAttr},
     PATH |-> IF "PATH" \in DOMAIN environ THEN <<environ.PATH>> ELSE <<>>]

\* func(context, ...) returns, line 49 (or the undecorated body when wrapper = "func")
BodyReturns ==
    /\ pc = "func"
    /\ failAt # Len(trace) + 1
    /\ trace' = Append(trace, BodyEntry)
    /\ pc' = IF wrapper = "wrapped" THEN "delattr" ELSE "returned"
    /\ UNCHANGED <<environ, context, versions, failAt, wrapper, vlist, i, version,
                   resolved, path, current_path, error, environ0>>

\* func(context, ...) raises: the exception is thrown into setpath at its yield,
\* which has no try/finally, and leaves wrapped; lines 32 and 50 do not run
BodyRaisesRestoring ==
    /\ pc = "func"
    /\ failAt = Len(trace) + 1
    /\ trace' = Append(trace, BodyEntry)
    /\ error' = "BodyError"
    /\ pc' = "raised"
    /\ environ' = IF wrapper = "wrapped"
                  THEN [environ EXCEPT !.PATH = current_path]
                  ELSE environ
    /\ UNCHANGED <<context, versions, failAt, wrapper, vlist, i, version,
                   resolved, path, current_path, environ0>>

BodyRaises ==
    /\ pc = "func"
    /\ failAt = Len(trace) + 1
    /\ trace' = Append(trace, BodyEntry)
    /\ error' = "BodyError"
    /\ pc' = "raised"
    /\ UNCHANGED <<environ, context, versions, failAt, wrapper, vlist, i, version,
                   resolved, path, current_path, environ0>>

\* del context.python_version, line 50
DelVersion ==
    /\ pc = "delattr"
    /\ context' = context \ PythonVersionAttr
    /\ pc' = "exit"
    /\ UNCHANGED <<environ, versions, failAt, wrapper, vlist, i, version, resolved,
                   path, current_path, error, trace, environ0>>

\* setpath after its yield, line 32
SetpathExit ==
    /\ pc = "exit"
    /\ environ' = [environ EXCEPT !.PATH = setpath_exit(environ.PATH, current_path)]
    /\ pc' = "for"
    /\ UNCHANGED <<context, versions, failAt, wrapper, vlist, i, version, resolved,
                   path, current_path, error, trace, environ0>>

Next ==
    \/ Decorate
    \/ Call
    \/ ForNext
    \/ Resolve
    \/ SetpathEnter
    \/ SetVersion
    \/ BodyReturns
    \/ BodyRaises
    \/ DelVersion
    \/ SetpathExit

Spec == Init /\ [][Next]_vars

---------------------------------------------------------------------------
(* The resolution function on its own: get_poetry_venv applied once to an  *)
(* active environment path and an identifier drawn from bounded sets.      *)

ResolveChar == {"/", "-", "p", "y", "3"}

ResolveIdChar == {"3", "-"}

ResolveVenvs == SeqsUpTo(ResolveChar, MaxResolveLen) \cup VenvSamples

ResolveIds == SeqsUpTo(ResolveIdChar, MaxIdLen) \cup {V36, V310}

InitResolve ==
    /\ environ \in {[VIRTUAL_ENV |-> v] : v \in ResolveVenvs}
    /\ version \in ResolveIds
    /\ context = {}
    /\ versions = [kind |-> "str", text |-> version]
    /\ failAt = 0
    /\ wrapper = "none"
    /\ vlist = <<>>
    /\ pc = "pure"
    /\ i = 0
    /\ resolved = <<>>
    /\ path = <<>>
    /\ current_path = <<>>
    /\ error = "none"
    /\ trace = <<>>
    /\ environ0 = environ

\* get_poetry_venv(version) with VIRTUAL_ENV set, lines 20-23
ApplyResolve ==
    /\ pc = "pure"
    /\ resolved' = get_poetry_venv(environ, version).value
    /\ pc' = "applied"
    /\ UNCHANGED <<environ, context, versions, failAt, wrapper, vlist, i, version,
                   path, current_path, error, trace, environ0>>

NextResolve == ApplyResolve

SpecResolve == InitResolve /\ [][NextResolve]_vars

---------------------------------------------------------------------------
(* Vocabulary of the properties. *)

Wrapped == wrapper = "wrapped"

Called == pc \notin {"init", "ready"}

Ended == pc \in {"returned", "raised"}

EnvSet == {"PATH", "VIRTUAL_ENV"} \subseteq DOMAIN environ0

\* the index of the last occurrence of c in s, 0 when there is none
LastIndexOf(s, c) ==
    IF \A k \in 1..Len(s) : s[k] # c THEN 0
    ELSE CHOOSE k \in 1..Len(s) : s[k] = c /\ \A j \in (k + 1)..Len(s) : s[j] # c

HasSuffix(s, suffix) == \E n \in 0..Len(s) : s = SubSeq(s, 1, n) \o suffix

\* the resolution rule as the specification words it
ResolveRule(P, id) ==
    IF HasSuffix(P, PY \o id) THEN P
    ELSE SubSeq(P, 1, LastIndexOf(P, "-") - 1) \o DASH_PY \o id

\* a path pathlib leaves as it is: no empty and no "." component after the root
IsNormal(p) ==
    LET parts == Split(p, "/")
    IN  /\ p # <<>>
        /\ \A k \in 1..Len(parts) : parts[k] # <<".">> /\ (k > 1 => parts[k] # <<>>)

\* the tool directory of identifier id in the environment env
ToolDir(env, id) == path_bin(get_poetry_venv(env, id).value)

---------------------------------------------------------------------------
(* C1: when VIRTUAL_ENV is set and every execution of the body has         *)
(* returned normally, PATH after each environment-scoped invocation (each  *)
(* time the loop of wrapped is back at its head) and after the whole call  *)
(* is exactly the value it had before the invocation, which is the value   *)
(* it had when the task was called.                                        *)
C1_PathRestoredOnSuccess ==
    (Wrapped /\ pc \in {"for", "returned"} /\ i >= 1) =>
        /\ environ.PATH = current_path
        /\ environ.PATH = environ0.PATH
        /\ environ = environ0

C1_Witness ==
    /\ Wrapped
    /\ pc = "returned"
    /\ Len(vlist) >= 2
    /\ Len(trace) = Len(vlist)
    /\ environ.PATH = <<"/", "u", ":", "/", "b">>
    /\ environ = environ0
    /\ \A k \in 1..Len(trace) : trace[k].PATH # <<environ0.PATH>>

(* C2: in every state reached after an environment-scoped invocation has   *)
(* ended, normally or by an exception, PATH equals its pre-invocation      *)
(* value.                                                                  *)
C2_PathRestoredAlways ==
    (Wrapped /\ pc \in {"for", "returned", "raised"}) => environ = environ0

(* C3, as stated: for a non-empty list of N identifiers and a body that    *)
(* never fails, one call executes the body exactly N times, the k-th       *)
(* execution seeing context.python_version equal to the k-th identifier.   *)
C3_Original ==
    (Wrapped /\ failAt = 0 /\ Ended) =>
        /\ Len(trace) = Len(vlist)
        /\ \A k \in 1..Len(trace) : trace[k].python_version = {vlist[k]}

(* C3, amended: the executions of the body always follow the identifiers   *)
(* in order, none skipped, repeated or reordered; and when VIRTUAL_ENV and *)
(* PATH are set and the body never fails the call returns after exactly N  *)
(* executions.                                                             *)
C3_OncePerIdentifierInOrder ==
    /\ Wrapped =>
        /\ Len(trace) <= Len(vlist)
        /\ \A k \in 1..Len(trace) : trace[k].python_version = {vlist[k]}
    /\ (Wrapped /\ failAt = 0 /\ Ended /\ EnvSet) =>
        /\ pc = "returned"
        /\ Len(trace) = Len(vlist)

C3_Witness ==
    /\ Wrapped
    /\ pc = "returned"
    /\ failAt = 0
    /\ vlist = PYTHON_VERSIONS
    /\ Len(trace) = 4
    /\ trace[1].python_version = {V36}
    /\ trace[4].python_version = {V310}

(* C5: for an empty list or any other falsy argument the decorator returns *)
(* the body itself: a call runs the body exactly once, needs no            *)
(* VIRTUAL_ENV, writes no PATH and never touches context.python_version.   *)
C5_EmptyIsIdentity ==
    Falsy(versions) =>
        /\ pc # "init" => wrapper = "func" /\ vlist = <<>>
        /\ pc \in {"init", "ready", "func", "returned", "raised"}
        /\ environ = environ0
        /\ context = {}
        /\ resolved = <<>> /\ path = <<>> /\ i = 0
        /\ error # "KeyError"
        /\ Len(trace) <= 1
        /\ \A k \in 1..Len(trace) :
              /\ trace[k].python_version = {}
              /\ "PATH" \in DOMAIN environ0 => trace[k].PATH = <<environ0.PATH>>
        /\ Ended => Len(trace) = 1
        /\ pc = "returned" => error = "none"

C5_Witness ==
    /\ versions = [kind |-> "list", items |-> <<>>]
    /\ pc = "returned"
    /\ wrapper = "func"
    /\ "VIRTUAL_ENV" \notin DOMAIN environ
    /\ Len(trace) = 1

(* C6: get_poetry_venv follows the resolution rule for every active path P *)
(* and identifier id: P unmodified when it ends with "py"+id, otherwise P  *)
(* up to its last "-" followed by "-py"+id; so for P ending in "-py3.6"    *)
(* and id "3.10" the result ends in "py3.10" and keeps P's text before its *)
(* last "-".                                                               *)
C6_ResolutionRule ==
    pc = "applied" =>
        LET P == environ.VIRTUAL_ENV
            n == Len(P) - 6
        IN  /\ resolved = ResolveRule(P, version)
            /\ HasSuffix(P, PY \o version) => resolved = P
            /\ (HasSuffix(P, DASH_PY \o V36) /\ version = V310) =>
                  /\ HasSuffix(resolved, PY \o V310)
                  /\ Len(resolved) = n + Len(DASH_PY \o V310)
                  /\ SubSeq(resolved, 1, n) = SubSeq(P, 1, n)

C6_Witness ==
    /\ pc = "applied"
    /\ environ.VIRTUAL_ENV = <<"/", "c", "/", "n", "-", "h", "-", "p", "y", "3", ".", "6">>
    /\ version = V310
    /\ resolved = <<"/", "c", "/", "n", "-", "h", "-", "p", "y", "3", ".", "1", "0">>

(* C7: with VIRTUAL_ENV absent, a call of a task wrapped over a non-empty  *)
(* sequence fails at the first identifier with a KeyError: the body is     *)
(* never executed, and PATH and context.python_version stay as they were.  *)
C7_MissingVenvIsFatal ==
    (Wrapped /\ Called /\ "VIRTUAL_ENV" \notin DOMAIN environ0) =>
        /\ pc \in {"for", "with", "raised"}
        /\ pc = "for" => i = 0
        /\ pc \in {"with", "raised"} => i = 1 /\ version = vlist[1]
        /\ pc = "raised" => error = "KeyError"
        /\ trace = <<>>
        /\ environ = environ0
        /\ context = {}

C7_Witness ==
    /\ Wrapped
    /\ "VIRTUAL_ENV" \notin DOMAIN environ0
    /\ "PATH" \in DOMAIN environ0
    /\ Len(vlist) >= 2
    /\ pc = "raised"
    /\ error = "KeyError"
    /\ trace = <<>>

(* C8: if the body raises during the invocation for identifier k, PATH is  *)
(* not restored: once the exception has left the wrapped task PATH still   *)
(* is identifier k's tool directory, ":" and the original value, the value *)
(* the body itself saw.                                                    *)
C8_PathLeaksWhenBodyRaises ==
    (Wrapped /\ pc = "raised" /\ error = "BodyError") =>
        /\ i = Len(trace) /\ i = failAt
        /\ environ.PATH = ToolDir(environ0, vlist[i]) \o <<":">> \o environ0.PATH
        /\ environ.PATH # environ0.PATH
        /\ trace[i].PATH = <<environ.PATH>>

C8_Witness ==
    /\ Wrapped
    /\ pc = "raised"
    /\ error = "BodyError"
    /\ i = 2
    /\ vlist = <<V36, V310>>
    /\ environ0.VIRTUAL_ENV = <<"/", "c", "/", "n", "-", "h", "-", "p", "y", "3", ".", "6">>
    /\ environ0.PATH = <<"/", "u", ":", "/", "b">>
    /\ environ.PATH = <<"/", "c", "/", "n", "-", "h", "-", "p", "y", "3", ".", "1", "0",
                        "/", "b", "i", "n", ":", "/", "u", ":", "/", "b">>

(* C9, as stated: a scalar string identifier makes the wrapped task run    *)
(* the body exactly once, with context.python_version the whole string.    *)
C9_Original ==
    (versions.kind = "str" /\ ~Falsy(versions) /\ Ended) =>
        /\ Len(trace) = 1
        /\ trace[1].python_version = {versions.text}

(* C9, amended: a scalar string identifier is normalised to a one-element  *)
(* sequence; the body never runs more than once and only with              *)
(* context.python_version the whole string, never a single character; and  *)
(* when VIRTUAL_ENV and PATH are set it runs exactly once.                 *)
C9_ScalarIsOneIdentifier ==
    (versions.kind = "str" /\ ~Falsy(versions) /\ pc # "init") =>
        /\ Wrapped
        /\ vlist = <<versions.text>>
        /\ i <= 1
        /\ Len(trace) <= 1
        /\ \A k \in 1..Len(trace) : trace[k].python_version = {versions.text}
        /\ (Ended /\ EnvSet) => Len(trace) = 1

C9_Witness ==
    /\ versions = [kind |-> "str", text |-> V310]
    /\ pc = "returned"
    /\ Len(trace) = 1
    /\ trace[1].python_version = {V310}

(* The window in which context.python_version is set: from line 48 to      *)
(* line 50, around the execution of the body.                              *)
C10_VersionOnlyAroundBody ==
    (Wrapped /\ error # "BodyError") =>
        (context # {} <=> pc \in {"func", "delattr"})

(* C10, as stated: in a call whose body never fails, while the body        *)
(* executes for identifier vi PATH is the text of get_poetry_venv(vi),     *)
(* "/bin:" and the PATH from before the call.                              *)
C10_Original ==
    /\ (Wrapped /\ failAt = 0 /\ pc = "func") =>
          environ.PATH = get_poetry_venv(environ0, vlist[i]).value
                            \o <<"/">> \o BIN \o <<":">> \o environ0.PATH
    /\ C10_VersionOnlyAroundBody

(* C10, amended: while the body executes for identifier vi, PATH is        *)
(* str(Path(get_poetry_venv(vi)) / "bin"), ":" and the PATH from before    *)
(* the call, which is the text of get_poetry_venv(vi) followed by "/bin:"  *)
(* whenever pathlib leaves that path as it is; one tool directory is       *)
(* prepended at a time, and context.python_version is set only around the  *)
(* execution of the body.                                                  *)
C10_ScopedPathDuringBody ==
    /\ (Wrapped /\ pc = "func") =>
          LET venv == get_poetry_venv(environ0, vlist[i]).value
          IN  /\ context = {<<"python_version", vlist[i]>>}
              /\ current_path = environ0.PATH
              /\ environ.PATH = ToolDir(environ0, vlist[i]) \o <<":">> \o environ0.PATH
              /\ IsNormal(venv) =>
                    environ.PATH = venv \o <<"/">> \o BIN \o <<":">> \o environ0.PATH
    /\ C10_VersionOnlyAroundBody

C10_Witness ==
    /\ Wrapped
    /\ failAt = 0
    /\ pc = "func"
    /\ i = 2
    /\ Len(trace) = 1
    /\ vlist = <<V310, V36>>
    /\ environ0.VIRTUAL_ENV = <<"/", "a", "/", "/", "n", "-", "p", "y", "3", ".", "6">>
    /\ environ.PATH = <<"/", "a", "/", "n", "-", "p", "y", "3", ".", "6",
                        "/", "b", "i", "n", ":", "/", "u", ":", "/", "b">>

=============================================================================
